---- MODULE Spec2Model ----
(***************************************************************************)
(* Burrows-Wheeler transform and its naive inverse (bwt_python.py).         *)
(*                                                                         *)
(* A Python string is modelled as a sequence of code points, so that the    *)
(* order Python's sorted()/list.sort() uses on strings (code point by code  *)
(* point, a proper prefix first) is the order on the model's sequences.     *)
(* A run of the model is one call: either the driver's round trip           *)
(* bwt_transform(x) followed by bwt_inverse on the pair it returned, or a   *)
(* direct call bwt_inverse(transformed, index) on arbitrary arguments.      *)
(***************************************************************************)
EXTENDS Integers, Sequences, FiniteSets

VARIABLES
    caller,            \* "main": transform, then inverse; "direct": inverse only
    pc,                \* position: "transform", "inverse", "loop", "done"
    x,                 \* argument of bwt_transform
    s,                 \* bwt_transform's s after the marker has been added
    sorted_rotations,  \* bwt_transform's sorted_rotations
    transformed,       \* result of bwt_transform / argument of bwt_inverse
    index,             \* result of bwt_transform / argument of bwt_inverse
    table,             \* bwt_inverse's table
    i,                 \* bwt_inverse's outer loop counter: iterations completed
    result,            \* value returned by bwt_inverse
    raised             \* "none", or the exception that left bwt_inverse

vars == <<caller, pc, x, s, sorted_rotations, transformed, index, table, i,
          result, raised>>

----------------------------------------------------------------------------
(* Bounds of the model.                                                    *)

\* longest string drawn as an input
MaxLen == 4
\* how far below -len and above len-1 the index of a direct call is drawn
IndexSlack == 2

----------------------------------------------------------------------------
(* Symbols, as code points.                                                *)

\* ord('$'), the end-of-string marker
Sentinel == 36
\* the symbols inputs are drawn from: '#' (which sorts below the marker), '$',
\* 'A' and 'B'
Alphabet == {35, Sentinel, 65, 66}

\* "BANANA$"
Banana == <<66, 65, 78, 65, 78, 65, 36>>
\* "MISSISSIPPI$"
Mississippi == <<77, 73, 83, 83, 73, 83, 83, 73, 80, 80, 73, 36>>

StringsOfLen(n) == [1..n -> Alphabet]
Strings == UNION {StringsOfLen(n) : n \in 0..MaxLen}

----------------------------------------------------------------------------
(* Python's operations on strings and lists.                               *)

\* a < b on Python strings
RECURSIVE StrLess(_, _)
StrLess(a, b) ==
    IF b = <<>> THEN FALSE
    ELSE IF a = <<>> THEN TRUE
    ELSE IF Head(a) # Head(b) THEN Head(a) < Head(b)
    ELSE StrLess(Tail(a), Tail(b))

\* one insertion of the stable sort: row goes after every element not above it
RECURSIVE Insert(_, _)
Insert(row, lst) ==
    IF lst = <<>> THEN <<row>>
    ELSE IF StrLess(row, Head(lst)) THEN <<row>> \o lst
    ELSE <<Head(lst)>> \o Insert(row, Tail(lst))

\* sorted(lst) / lst.sort() on a list of strings
RECURSIVE Sorted(_)
Sorted(lst) ==
    IF lst = <<>> THEN <<>>
    ELSE Insert(lst[Len(lst)], Sorted(SubSeq(lst, 1, Len(lst) - 1)))

\* '$' in str
Contains(str, c) == \E k \in 1..Len(str) : str[k] = c

\* the marker added without the test of line 9
AddMarkerAlways(str) == Append(str, Sentinel)

\* lines 9-10: add the end-of-string marker if not present
AddMarker(str) == IF ~Contains(str, Sentinel) THEN Append(str, Sentinel) ELSE str

\* line 13: s[k:] + s[:k]
Rotation(str, k) == SubSeq(str, k + 1, Len(str)) \o SubSeq(str, 1, k)

\* line 13: [s[k:] + s[:k] for k in range(len(s))]
Rotations(str) == [k \in 1..Len(str) |-> Rotation(str, k - 1)]

\* the position of the first element equal to v, counted from 1
ListIndexOneBased(lst, v) ==
    CHOOSE k \in 1..Len(lst) :
        lst[k] = v /\ \A m \in 1..(k - 1) : lst[m] # v

\* line 19: lst.index(v), the 0-based position of the first element equal to v
ListIndex(lst, v) ==
    (CHOOSE k \in 1..Len(lst) :
        lst[k] = v /\ \A m \in 1..(k - 1) : lst[m] # v) - 1

\* rotation[0] in place of rotation[-1]
FirstChar(row) == row[1]

\* line 22: rotation[-1]
LastChar(row) == row[Len(row)]

\* line 22: ''.join(rotation[-1] for rotation in sorted_rotations)
LastColumn(rows) == [k \in 1..Len(rows) |-> LastChar(rows[k])]

\* a range one value short: range(len(transformed) - 1)
RangeExhaustedEarly(k, n) == k >= n - 1

\* line 34: range(len(transformed)) has no further value after k iterations
RangeExhausted(k, n) == k >= n

\* table[j] = table[j] + transformed[j]: the column added on the right
PrependOnRight(col, tbl) == [j \in 1..Len(col) |-> tbl[j] \o <<col[j]>>]

\* lines 36-37: table[j] = transformed[j] + table[j] for every j
Prepend(col, tbl) == [j \in 1..Len(col) |-> <<col[j]>> \o tbl[j]]

\* line 43: table[index] is defined for -len <= index < len
Subscriptable(tbl, idx) == -Len(tbl) <= idx /\ idx < Len(tbl)

\* line 43: table[index], a negative index counting from the end
Subscript(tbl, idx) == IF idx < 0 THEN tbl[Len(tbl) + idx + 1] ELSE tbl[idx + 1]

----------------------------------------------------------------------------
(* The calls.                                                              *)

\* arguments the driver passes to bwt_transform
Inputs == Strings \cup {Banana, Mississippi}

\* lines 50-53: the string main passes on to bwt_inverse for "BANANA$"
BananaTransformed == LastColumn(Sorted(Rotations(AddMarker(Banana))))

\* first arguments of a direct call of bwt_inverse
InverseInputs == Strings \cup {BananaTransformed}

\* index arguments of a direct call of bwt_inverse on a string of length n
Indices(n) == (-(n + IndexSlack))..(n + IndexSlack - 1)

Init ==
    /\ s = <<>>
    /\ sorted_rotations = <<>>
    /\ table = <<>>
    /\ i = 0
    /\ result = <<>>
    /\ raised = "none"
    /\ \/ /\ caller = "main"
          /\ pc = "transform"
          /\ x \in Inputs
          /\ transformed = <<>>
          /\ index = 0
       \/ /\ caller = "direct"
          /\ pc = "inverse"
          /\ x = <<>>
          /\ transformed \in InverseInputs
          /\ index \in Indices(Len(transformed))

\* bwt_transform(x), lines 3-24
Transform ==
    /\ pc = "transform"
    /\ LET s1   == AddMarker(x)
           rows == Sorted(Rotations(s1))
       IN /\ s' = s1
          /\ sorted_rotations' = rows
          /\ index' = ListIndex(rows, s1)
          /\ transformed' = LastColumn(rows)
    /\ pc' = "inverse"
    /\ UNCHANGED <<caller, x, table, i, result, raised>>

\* bwt_inverse, line 31: table = [''] * len(transformed)
InverseEnter ==
    /\ pc = "inverse"
    /\ table' = [j \in 1..Len(transformed) |-> <<>>]
    /\ i' = 0
    /\ pc' = "loop"
    /\ UNCHANGED <<caller, x, s, sorted_rotations, transformed, index, result, raised>>

\* the outer loop's iteration without the sort of line 40
InverseIterateNoSort ==
    /\ pc = "loop"
    /\ ~RangeExhausted(i, Len(transformed))
    /\ table' = Prepend(transformed, table)
    /\ i' = i + 1
    /\ UNCHANGED <<caller, pc, x, s, sorted_rotations, transformed, index, result, raised>>

\* bwt_inverse, lines 34-40: one iteration of the outer loop
InverseIterate ==
    /\ pc = "loop"
    /\ ~RangeExhausted(i, Len(transformed))
    /\ table' = Sorted(Prepend(transformed, table))
    /\ i' = i + 1
    /\ UNCHANGED <<caller, pc, x, s, sorted_rotations, transformed, index, result, raised>>

\* bwt_inverse, line 43: return table[index]
InverseReturn ==
    /\ pc = "loop"
    /\ RangeExhausted(i, Len(transformed))
    /\ IF Subscriptable(table, index)
       THEN result' = Subscript(table, index) /\ raised' = "none"
       ELSE result' = <<>> /\ raised' = "IndexError"
    /\ pc' = "done"
    /\ UNCHANGED <<caller, x, s, sorted_rotations, transformed, index, table, i>>

Next == Transform \/ InverseEnter \/ InverseIterate \/ InverseReturn

Spec == Init /\ [][Next]_vars

----------------------------------------------------------------------------
(* Vocabulary of the properties, stated without the operators above.       *)

\* number of occurrences of symbol c in str
Count(str, c) == Cardinality({k \in 1..Len(str) : str[k] = c})

\* the sequence the transform works on: str, with the marker appended if absent
effective(str) == IF Count(str, Sentinel) = 0 THEN str \o <<Sentinel>> ELSE str

\* the cyclic shift of str that starts at 0-based offset off
CyclicRow(str, off) == [k \in 1..Len(str) |-> str[((off + k - 1) % Len(str)) + 1]]

\* a <= b in lexicographic order, for sequences of one length
LexLeq(a, b) ==
    \/ a = b
    \/ \E p \in 1..Len(a) : a[p] < b[p] /\ \A q \in 1..(p - 1) : a[q] = b[q]

\* rows is the table of the Len(str) cyclic shifts of str in lexicographic order
IsSortedRotationTable(rows, str) ==
    /\ Len(rows) = Len(str)
    /\ \A k \in 1..Len(rows) : \A m \in k..Len(rows) : LexLeq(rows[k], rows[m])
    /\ \A off \in 0..(Len(str) - 1) :
          Cardinality({k \in 1..Len(rows) : rows[k] = CyclicRow(str, off)})
            = Cardinality({o \in 0..(Len(str) - 1) : CyclicRow(str, o) = CyclicRow(str, off)})

\* bwt_transform has returned to main
TransformReturned == caller = "main" /\ pc # "transform"

\* bwt_inverse has returned or raised
InverseLeft == pc = "done"

\* every string bwt_transform returns for an input whose result has length <= MaxLen
TransformOutputs == {LastColumn(Sorted(Rotations(AddMarker(y)))) : y \in Strings}

----------------------------------------------------------------------------
(* Properties.                                                             *)

\* C1: round trip. For every non-empty x with at most one '$', bwt_inverse on
\* the pair returned by bwt_transform(x) returns effective(x).
RoundTrip ==
    (caller = "main" /\ InverseLeft /\ Len(x) >= 1 /\ Count(x, Sentinel) <= 1)
        => (raised = "none" /\ result = effective(x))

RoundTripWitness ==
    /\ caller = "main" /\ InverseLeft
    /\ x = <<66, 65, 65>>
    /\ result = <<66, 65, 65, Sentinel>>

\* C2: permutation law. The string returned by bwt_transform(x) has the length
\* of effective(x) (len(x) + 1 without '$', len(x) with) and holds every symbol
\* as many times as effective(x) does.
PermutationLaw ==
    TransformReturned =>
        /\ Len(transformed) = Len(x) + (IF Count(x, Sentinel) = 0 THEN 1 ELSE 0)
        /\ Len(transformed) = Len(effective(x))
        /\ \A k \in 1..Len(transformed) :
              Count(transformed, transformed[k]) = Count(effective(x), transformed[k])
        /\ \A k \in 1..Len(effective(x)) :
              Count(transformed, effective(x)[k]) = Count(effective(x), effective(x)[k])

PermutationLawWitness ==
    /\ TransformReturned
    /\ x = <<65, Sentinel, 66, 65>>
    /\ transformed # x

\* C3: index bounds. The index returned by bwt_transform(x) is in [0, n) and the
\* row at that index of the sorted rotations of effective(x) is effective(x).
IndexBounds ==
    TransformReturned =>
        /\ 0 <= index /\ index < Len(effective(x))
        /\ IsSortedRotationTable(sorted_rotations, effective(x))
        /\ sorted_rotations[index + 1] = effective(x)

IndexBoundsWitness ==
    /\ TransformReturned
    /\ x = <<66, 65, 66>>
    /\ index = Len(x)

\* C4: forward definition. Character k of the string returned by bwt_transform(x)
\* is the last symbol of row k of the sorted rotations of effective(x), the
\* symbol that cyclically precedes the row's starting offset; "BANANA$" gives
\* ("ANNB$AA", 4).
ForwardDefinition ==
    TransformReturned =>
        /\ IsSortedRotationTable(sorted_rotations, effective(x))
        /\ Len(transformed) = Len(effective(x))
        /\ \A k \in 1..Len(transformed) :
              /\ transformed[k] = sorted_rotations[k][Len(effective(x))]
              /\ \E off \in 0..(Len(effective(x)) - 1) :
                    /\ sorted_rotations[k] = CyclicRow(effective(x), off)
                    /\ transformed[k] =
                         effective(x)[((off + Len(effective(x)) - 1) % Len(effective(x))) + 1]
        /\ x = Banana =>
              /\ transformed = <<65, 78, 78, 66, 36, 65, 65>>
              /\ index = 4

ForwardDefinitionWitness ==
    /\ TransformReturned
    /\ x = Banana
    /\ transformed = <<65, 78, 78, 66, 36, 65, 65>>

\* C5: a zero-length sequence is rejected by either operation: bwt_transform("")
\* returns no pair and bwt_inverse("", i) returns no sequence.
EmptyInputRejected ==
    /\ (caller = "main" /\ x = <<>>) => pc = "transform"
    /\ (caller = "direct" /\ transformed = <<>> /\ InverseLeft) => raised # "none"

\* C6: for a transformed string of length n >= 1 and an index outside [0, n),
\* bwt_inverse fails and returns no sequence.
IndexOutOfRangeRejected ==
    (caller = "direct" /\ InverseLeft /\ Len(transformed) >= 1
       /\ (index < 0 \/ index >= Len(transformed)))
        => raised # "none"

\* C7: an input with more than one '$' is rejected by bwt_transform, which
\* returns no pair.
MultipleSentinelsRejected ==
    (caller = "main" /\ Count(x, Sentinel) > 1) => pc = "transform"

\* C8: for a non-empty t that is not the output of bwt_transform on any string
\* and an index in [0, len(t)), bwt_inverse signals an error instead of
\* returning a sequence.
MalformedTransformRejected ==
    (caller = "direct" /\ InverseLeft /\ Len(transformed) >= 1
       /\ transformed \notin TransformOutputs /\ transformed # BananaTransformed
       /\ 0 <= index /\ index < Len(transformed))
        => raised # "none"

\* C9: inverse loop invariant. On the pair returned by bwt_transform(x), x with
\* at most one '$', after j iterations row k of the table is the first j symbols
\* of row k of the sorted rotations of effective(x); the loop ends after exactly
\* n iterations with the table equal to bwt_transform's sorted rotations.
InverseLoopInvariant ==
    (caller = "main" /\ pc \in {"loop", "done"} /\ Count(x, Sentinel) <= 1) =>
        /\ IsSortedRotationTable(sorted_rotations, effective(x))
        /\ 0 <= i /\ i <= Len(effective(x))
        /\ Len(table) = Len(effective(x))
        /\ \A k \in 1..Len(table) : table[k] = SubSeq(sorted_rotations[k], 1, i)
        /\ pc = "done" => (i = Len(effective(x)) /\ table = sorted_rotations)

InverseLoopInvariantWitness ==
    /\ caller = "main" /\ pc = "loop"
    /\ x = <<66, Sentinel, 65, 66>>
    /\ i = 2
    /\ table # <<>>

\* C10: the round trip needs no sentinel assumption. For every x, with several
\* '$' or with symbols below '$', bwt_inverse on the pair returned by
\* bwt_transform(x) returns effective(x).
RoundTripAnyInput ==
    (caller = "main" /\ InverseLeft) => (raised = "none" /\ result = effective(x))

RoundTripAnyInputWitness ==
    /\ caller = "main" /\ InverseLeft
    /\ x = <<Sentinel, 35, Sentinel, 35>>
    /\ index = 2
    /\ result = x

====
